---------------------------- MODULE Spec2Model ----------------------------
(* Model of down.py (download_decrypt_mpd.py): a sequential pipeline that  *)
(* resolves three tools, creates a temporary directory, runs yt-dlp three  *)
(* times, mp4decrypt once or twice, and ffmpeg (or a file copy) once.      *)
(* The external tools are the environment: each returns any code of        *)
(* RetCodes and writes, or does not write, its output file.                *)
EXTENDS Integers, Sequences, FiniteSets, TLC

(* ------------------------------ bounds -------------------------------- *)
MaxContent == 2
MaxRc == 2

Contents == 1..MaxContent
RetCodes == 0..MaxRc

(* ------------------------- program constants -------------------------- *)
OUTPUT == "final_output.mp4"
video_enc == "video.encrypted.mp4"
audio_enc == "audio.encrypted.m4a"
video_dec == "video.decrypted.mp4"
audio_dec == "audio.decrypted.m4a"
(* some other .mp4 file the downloader may leave in the directory *)
stray_mp4 == "stray.mp4"

ToolOrder == <<"yt-dlp", "mp4decrypt", "ffmpeg">>
Tools == {ToolOrder[i] : i \in 1..3}

TmpNames == {video_enc, audio_enc, video_dec, audio_dec, stray_mp4}
(* the names of TmpNames that the pattern "*.mp4" matches *)
Mp4Names == {video_enc, video_dec, stray_mp4}

NoFiles == [n \in {} |-> 0]

VARIABLES
    PATH,        \* the executables the search path resolves
    pc,          \* position in main()
    resolved,    \* tools resolved so far (locals yt_dlp, mp4decrypt, ffmpeg)
    tmp,         \* the temporary directory: [exists, files]
    cwd,         \* the current directory: name -> contents (only OUTPUT)
    log,         \* the subprocesses started, in order
    copyAttempt, \* "none", "ok" (copy2 done), "nosrc" (copy2 of a missing file)
    exitCode,    \* {} while running, {c} once the process has exited
    diag         \* the last diagnostic printed

vars == <<PATH, pc, resolved, tmp, cwd, log, copyAttempt, exitCode, diag>>

Exists(n) == n \in DOMAIN tmp.files

(* ------------------------------ helpers ------------------------------- *)
which_missing_ffmpeg(cmd) == cmd = "ffmpeg" \/ cmd \in PATH

\* shutil.which(cmd) found the tool
which_or_exit(cmd) == cmd \in PATH

Fatal_all(cmd) == TRUE

Fatal_not_video(cmd) == cmd \notin {"list", "dl_video"}

Fatal_not_decrypt(cmd) == cmd \notin {"list", "dec_video", "dec_audio", "dec_merged"}

\* does a CalledProcessError of this command reach the outer handler
Fatal(cmd) == cmd # "list"

\* where main() continues after the command returned
After(cmd) ==
    CASE cmd = "list" -> "dl_video"
      [] cmd = "dl_video" -> "dl_audio"
      [] cmd = "dl_audio" -> "validate"
      [] cmd = "dec_video" -> "dec_audio"
      [] cmd = "dec_audio" -> "merge"
      [] cmd = "dec_merged" -> "merge"
      [] OTHER -> "success"

audio_enc_assumed(fs) == TRUE

\* audio_enc.exists() at line 112
audio_enc_exists(fs) == audio_enc \in DOMAIN fs

\* tmp.glob("*.mp4") without the decrypted video
merged_candidates(fs) == {n \in DOMAIN fs \cap Mp4Names : n # video_dec}

MergeBranch_copy_first(fs) ==
    IF video_dec \in DOMAIN fs THEN "copy" ELSE "fail"

\* the branch step 5 takes
MergeBranch(fs) ==
    IF video_dec \in DOMAIN fs /\ audio_dec \in DOMAIN fs THEN "mux"
    ELSE IF video_dec \in DOMAIN fs /\ audio_dec \notin DOMAIN fs THEN "copy"
    ELSE "fail"

CopySource_enc == video_enc

\* the file copied to OUTPUT at line 133
CopySource == video_dec

RemovedOnExit(t) == [exists |-> FALSE, files |-> NoFiles]

\* what the exit paths of main() leave of the temporary directory
KeptOnExit(t) == t

ExitStatus_rc(rc) == rc

\* the code of sys.exit(1) in the CalledProcessError handler
ExitStatus(rc) == 1

(* ------------------------------ actions ------------------------------- *)
Init ==
    /\ PATH \in SUBSET Tools
    /\ pc = "which"
    /\ resolved = {}
    /\ tmp = [exists |-> FALSE, files |-> NoFiles]
    /\ cwd \in {NoFiles} \cup {(OUTPUT :> c) : c \in Contents}
    /\ log = <<>>
    /\ copyAttempt = "none"
    /\ exitCode = {}
    /\ diag = "none"

\* sys.exit(code) from inside main(), after msg was printed
Exit(code, msg, t) ==
    /\ pc' = "done"
    /\ exitCode' = {code}
    /\ diag' = msg
    /\ tmp' = KeptOnExit(t)

\* run(cmd): print and start the subprocess
Spawn(cmd, tool, ins, out) ==
    IF tool \in PATH
    THEN /\ log' = Append(log, [cmd |-> cmd, tool |-> tool, ins |-> ins,
                                out |-> out,
                                inputsExist |-> ins \subseteq DOMAIN tmp.files,
                                rc |-> {}, wrote |-> FALSE])
         /\ pc' = "run"
         /\ UNCHANGED <<PATH, resolved, tmp, cwd, copyAttempt, exitCode, diag>>
    ELSE /\ Exit(1, "unexpected", tmp)
         /\ UNCHANGED <<PATH, resolved, cwd, log, copyAttempt>>

\* lines 64-66 with which_or_exit, one tool at a time
Which ==
    /\ pc = "which"
    /\ LET cmd == ToolOrder[Cardinality(resolved) + 1] IN
       IF which_or_exit(cmd)
       THEN /\ resolved' = resolved \cup {cmd}
            /\ pc' = IF Cardinality(resolved) = 2 THEN "mkdtemp" ELSE "which"
            /\ UNCHANGED <<PATH, tmp, cwd, log, copyAttempt, exitCode, diag>>
       ELSE /\ pc' = "done"
            /\ exitCode' = {1}
            /\ diag' = "tool_missing"
            /\ UNCHANGED <<PATH, resolved, tmp, cwd, log, copyAttempt>>

\* lines 69-75
Mkdtemp ==
    /\ pc = "mkdtemp"
    /\ tmp' = [exists |-> TRUE, files |-> NoFiles]
    /\ pc' = "list"
    /\ UNCHANGED <<PATH, resolved, cwd, log, copyAttempt, exitCode, diag>>

\* line 81
ListFormats ==
    /\ pc = "list"
    /\ Spawn("list", "yt-dlp", {}, {})

\* line 89
DownloadVideo ==
    /\ pc = "dl_video"
    /\ Spawn("dl_video", "yt-dlp", {}, {video_enc})

\* line 93
DownloadAudio ==
    /\ pc = "dl_audio"
    /\ Spawn("dl_audio", "yt-dlp", {}, {audio_enc})

\* lines 96-100
Validate ==
    /\ pc = "validate"
    /\ IF ~Exists(video_enc)
       THEN /\ Exit(1, "video_missing", tmp)
            /\ UNCHANGED <<PATH, resolved, cwd, log, copyAttempt>>
       ELSE /\ pc' = "dec_video"
            /\ diag' = IF Exists(audio_enc) THEN diag ELSE "audio_missing"
            /\ UNCHANGED <<PATH, resolved, tmp, cwd, log, copyAttempt, exitCode>>

\* lines 109-110
DecryptVideo ==
    /\ pc = "dec_video"
    /\ IF Exists(video_enc)
       THEN Spawn("dec_video", "mp4decrypt", {video_enc}, {video_dec})
       ELSE /\ pc' = "dec_audio"
            /\ UNCHANGED <<PATH, resolved, tmp, cwd, log, copyAttempt, exitCode, diag>>

\* lines 112-124
DecryptAudio ==
    /\ pc = "dec_audio"
    /\ IF audio_enc_exists(tmp.files)
       THEN Spawn("dec_audio", "mp4decrypt", {audio_enc}, {audio_dec})
       ELSE IF merged_candidates(tmp.files) # {}
       THEN \E p \in merged_candidates(tmp.files) :
                Spawn("dec_merged", "mp4decrypt", {p}, {video_dec})
       ELSE /\ Exit(1, "no_candidate", tmp)
            /\ UNCHANGED <<PATH, resolved, cwd, log, copyAttempt>>

\* lines 127-140
Merge ==
    /\ pc = "merge"
    /\ LET b == MergeBranch(tmp.files) IN
       CASE b = "mux" ->
              Spawn("mux", "ffmpeg", {video_dec, audio_dec}, {OUTPUT})
         [] b = "copy" ->
              IF Exists(CopySource)
              THEN /\ cwd' = (OUTPUT :> tmp.files[CopySource]) @@ cwd
                   /\ copyAttempt' = "ok"
                   /\ Exit(0, "success", tmp)
                   /\ UNCHANGED <<PATH, resolved, log>>
              ELSE /\ copyAttempt' = "nosrc"
                   /\ Exit(1, "unexpected", tmp)
                   /\ UNCHANGED <<PATH, resolved, cwd, log>>
         [] OTHER ->
              /\ Exit(1, "no_video_dec", tmp)
              /\ UNCHANGED <<PATH, resolved, cwd, log, copyAttempt>>

\* subprocess.run(cmd, check=True) returns or raises (line 57), with the
\* handlers of lines 82-84 and 142-145
Wait ==
    /\ pc = "run"
    /\ LET e == log[Len(log)] IN
       \E rc \in RetCodes, w \in BOOLEAN, c \in Contents,
          s \in BOOLEAN, sc \in Contents :
          LET isDl == e.cmd \in {"dl_video", "dl_audio"}
              f1 == IF w /\ e.out \subseteq TmpNames
                    THEN [n \in e.out |-> c] @@ tmp.files ELSE tmp.files
              f2 == IF s /\ isDl THEN (stray_mp4 :> sc) @@ f1 ELSE f1
              t2 == [exists |-> tmp.exists, files |-> f2]
          IN
          /\ log' = [log EXCEPT ![Len(log)].rc = {rc},
                                ![Len(log)].wrote = (w \/ e.out = {})]
          /\ cwd' = IF w /\ e.out = {OUTPUT} THEN (OUTPUT :> c) @@ cwd ELSE cwd
          /\ IF rc # 0 /\ Fatal(e.cmd)
             THEN Exit(ExitStatus(rc), "cmd_failed", t2)
             ELSE IF After(e.cmd) = "success"
             THEN Exit(0, "success", t2)
             ELSE /\ tmp' = t2
                  /\ pc' = After(e.cmd)
                  /\ UNCHANGED <<exitCode, diag>>
          /\ UNCHANGED <<PATH, resolved, copyAttempt>>

Next ==
    \/ Which
    \/ Mkdtemp
    \/ ListFormats
    \/ DownloadVideo
    \/ DownloadAudio
    \/ Validate
    \/ DecryptVideo
    \/ DecryptAudio
    \/ Merge
    \/ Wait

Spec == Init /\ [][Next]_vars

\* every call blocks until the child returns, and the interpreter keeps
\* running main() until it exits
FairSpec == Spec /\ WF_vars(Next)


(* ----------------------- vocabulary of the claims --------------------- *)
Idx == DOMAIN log

Invoked(tool) == \E i \in Idx : log[i].tool = tool

Started(cmd) == \E i \in Idx : log[i].cmd = cmd

ReturnedZero(cmd) == \E i \in Idx : log[i].cmd = cmd /\ log[i].rc = {0}

ReturnedNonZero(cmd) ==
    \E i \in Idx : log[i].cmd = cmd /\ log[i].rc # {} /\ log[i].rc # {0}

DecryptCmds == {"dec_video", "dec_audio", "dec_merged"}

FatalCmds == {"dl_video", "dl_audio", "mux"} \cup DecryptCmds

FatalFailure == \E c \in FatalCmds : ReturnedNonZero(c)

FinalStepOk == copyAttempt = "ok" \/ ReturnedZero("mux")

Stage(cmd) ==
    CASE cmd = "list" -> 1
      [] cmd = "dl_video" -> 2
      [] cmd = "dl_audio" -> 3
      [] cmd \in DecryptCmds -> 4
      [] OTHER -> 5

(* ------------------------------- C1 ----------------------------------- *)
\* C1: when both downloads returned success, the encrypted audio does not
\* exist and the directory holds no candidate besides the encrypted video,
\* the run exits non-zero, never invokes the muxer and never writes the
\* final output.
C1_NoCandidateExitsNonZero ==
    (/\ pc = "done"
     /\ ReturnedZero("dl_video") /\ ReturnedZero("dl_audio")
     /\ ~Exists(audio_enc) /\ ~Exists(stray_mp4))
    => (/\ exitCode = {1}
        /\ ~Invoked("ffmpeg")
        /\ copyAttempt = "none")

(* ------------------------------- C2 ----------------------------------- *)
\* C2: when one of the three tools cannot be resolved, no subprocess is
\* ever started, no temporary directory is created, and the exit code is 1.
C2_MissingToolExitsEarly ==
    PATH # Tools =>
        /\ log = <<>>
        /\ ~tmp.exists
        /\ pc \in {"which", "done"}
        /\ pc = "done" => exitCode = {1} /\ diag = "tool_missing"

C2_Witness ==
    /\ pc = "done"
    /\ PATH = Tools \ {"ffmpeg"}
    /\ resolved = {"yt-dlp", "mp4decrypt"}
    /\ exitCode = {1}

(* ------------------------------- C3 ----------------------------------- *)
\* C3: once the video download has returned non-zero the run has exited
\* non-zero without the audio download, the decryptor or the muxer; once
\* the audio download has returned non-zero the run has exited non-zero
\* without the decryptor or the muxer.
C3_FailedDownloadStops ==
    /\ ReturnedNonZero("dl_video") =>
          /\ pc = "done" /\ exitCode = {1}
          /\ ~Started("dl_audio")
          /\ ~Invoked("mp4decrypt") /\ ~Invoked("ffmpeg")
    /\ ReturnedNonZero("dl_audio") =>
          /\ pc = "done" /\ exitCode = {1}
          /\ ~Invoked("mp4decrypt") /\ ~Invoked("ffmpeg")

C3_Witness ==
    /\ pc = "done"
    /\ ReturnedNonZero("dl_video")
    /\ Exists(video_enc)

(* ------------------------------- C4 ----------------------------------- *)
\* C4: a step taken from step 5 with the decrypted video present and the
\* decrypted audio absent writes the final output with exactly the
\* contents of the decrypted video, starts no subprocess and exits 0.
C4_CopyVerbatim ==
    [][(pc = "merge" /\ Exists(video_dec) /\ ~Exists(audio_dec)) =>
          /\ OUTPUT \in DOMAIN cwd'
          /\ cwd'[OUTPUT] = tmp.files[video_dec]
          /\ log' = log
          /\ pc' = "done"
          /\ exitCode' = {0}]_vars

C4_Witness ==
    /\ pc = "done"
    /\ copyAttempt = "ok"
    /\ Exists(video_dec) /\ ~Exists(audio_dec)
    /\ Exists(video_enc) /\ tmp.files[video_enc] # tmp.files[video_dec]
    /\ cwd[OUTPUT] = tmp.files[video_dec]

(* ------------------------------- C5 ----------------------------------- *)
AllGoodSoFar ==
    /\ PATH = Tools
    /\ \A i \in Idx : /\ log[i].rc \subseteq {0}
                      /\ log[i].rc = {0} => log[i].wrote

MuxedAndExitedZero ==
    /\ pc = "done"
    /\ exitCode = {0}
    /\ OUTPUT \in DOMAIN cwd
    /\ \E i \in Idx : /\ log[i].cmd = "mux"
                      /\ log[i].ins = {video_dec, audio_dec}
                      /\ log[i].rc = {0}

\* C5: a run with all three tools, in which every command returns zero and
\* writes its output file, eventually exits 0 after the muxer ran on the
\* two decrypted tracks and produced the final output.
C5_HappyPathTerminates == ([]AllGoodSoFar) => <>MuxedAndExitedZero

C5_Witness == AllGoodSoFar /\ MuxedAndExitedZero

(* ------------------------------- C6 ----------------------------------- *)
\* C6: the exit code is 0 or 1; it is 0 only if the mux or the copy
\* completed, and it is 1 whenever a tool is missing or a download, decrypt
\* or mux command returned non-zero.
C6_ExitCodes ==
    pc = "done" =>
        /\ exitCode \in {{0}, {1}}
        /\ exitCode = {0} => FinalStepOk
        /\ (PATH # Tools \/ FatalFailure) => exitCode = {1}

C6_Witness ==
    /\ pc = "done"
    /\ \E i \in Idx : log[i].cmd = "mux" /\ log[i].rc = {MaxRc}
    /\ exitCode = {1}

(* ------------------------------- C7 ----------------------------------- *)
ListFailed == ReturnedNonZero("list")

\* C7: whatever the listing command returns, the run goes on to the video
\* download with nothing else changed; after a failed listing the exit
\* code is still 0 exactly when the final step completed, and an exit with
\* 1 is caused by a later step.
C7_ListingIgnored ==
    /\ [][(pc = "run" /\ log[Len(log)].cmd = "list") =>
             /\ pc' = "dl_video"
             /\ exitCode' = {}
             /\ <<tmp, cwd, diag, copyAttempt>>' = <<tmp, cwd, diag, copyAttempt>>]_vars
    /\ []((ListFailed /\ pc = "done") =>
             /\ exitCode = {0} <=> FinalStepOk
             /\ exitCode = {1} =>
                   \/ FatalFailure
                   \/ diag \in {"video_missing", "no_video_dec"})

C7_Witness ==
    /\ ListFailed
    /\ pc = "done"
    /\ exitCode = {0}
    /\ ReturnedZero("mux")

(* ------------------------------- C8 ----------------------------------- *)
\* C8: every decryptor and muxer invocation was started with all its input
\* files present, the muxer with both decrypted tracks, and the copy was
\* never attempted on a missing decrypted video.
C8_InputsExist ==
    /\ \A i \in Idx :
          log[i].tool \in {"mp4decrypt", "ffmpeg"} =>
              /\ log[i].ins # {}
              /\ log[i].inputsExist
              /\ log[i].tool = "ffmpeg" => log[i].ins = {video_dec, audio_dec}
    /\ copyAttempt # "nosrc"

C8_Witness ==
    /\ Started("dec_audio")
    /\ Started("mux")
    /\ Exists(stray_mp4)

(* ------------------------------- C9 ----------------------------------- *)
\* C9: only the last subprocess started can still be running; the
\* subprocesses start in the order listing, video download, audio
\* download, decryptor invocations, muxer; a decryptor starts only after
\* both downloads returned; the muxer starts only after every decryptor
\* invocation returned zero.
C9_Sequential ==
    /\ \A i \in Idx : i < Len(log) => log[i].rc # {}
    /\ \A i \in Idx : i <= 3 => Stage(log[i].cmd) = i
    /\ \A i, j \in Idx :
          i < j => /\ Stage(log[i].cmd) <= Stage(log[j].cmd)
                   /\ Stage(log[i].cmd) = Stage(log[j].cmd)
                         => Stage(log[i].cmd) = 4
    /\ \A j \in Idx :
          log[j].tool = "mp4decrypt" =>
              /\ j > 3
              /\ log[2].rc = {0} /\ log[3].rc = {0}
    /\ \A j \in Idx :
          log[j].tool = "ffmpeg" =>
              \A i \in Idx : log[i].tool = "mp4decrypt" =>
                  i < j /\ log[i].rc = {0}

C9_Witness ==
    /\ Len(log) = 6
    /\ log[6].cmd = "mux"
    /\ log[6].rc = {}

(* ------------------------------- C10 ---------------------------------- *)
\* C10: once the temporary directory exists, no step removes it or any
\* file in it.
C10_NothingDeleted ==
    [][tmp.exists =>
          /\ tmp'.exists
          /\ DOMAIN tmp.files \subseteq DOMAIN tmp'.files]_vars

C10_Witness ==
    /\ pc = "done"
    /\ exitCode = {1}
    /\ tmp.exists
    /\ Exists(video_enc) /\ Exists(video_dec)

=============================================================================
